---- MODULE Spec2Model ----
(***************************************************************************)
(* A model of the alien-invasion world map (world/map.go), its helpers     *)
(* (utils/utils.go) and the simulation driver (simulation/simulation.go,   *)
(* main.go).                                                               *)
(*                                                                         *)
(* A Go map is modelled as a TLA+ function whose DOMAIN is the key set; a  *)
(* lookup of an absent key yields a nil pointer, and the dereference of a  *)
(* nil *City is a run-time panic.  Go slices are sequences.  An alien      *)
(* "alien<k>" is modelled by its number k.                                 *)
(***************************************************************************)
EXTENDS Integers, Sequences, FiniteSets, TLC

\* world/map.go: MaxOccupancy
MaxOccupancy == 2

\* simulation/simulation.go: minAlienMoves is 10000; the model is explored
\* with a small move budget.
MinMoves == 2

\* Bounds of the exploration.
MaxLinks == 3
MaxAliens == 3
MaxGraphLinks == 4
MaxFightLinks == 3
MaxFightAliens == 4
MaxDirLinks == 2
MaxConfigLinks == 2
MaxPushes == 5
MaxPriority == 3
MaxSeedLinks == 2
MaxSeedAliens == 3
MaxWarLinks == 3
MaxWarAliens == 4
MaxSliceLen == 4

CityNames == {"foo", "bar", "baz"}
AlienIds == 1..MaxAliens

VARIABLES
    cities,      \* Map.cities: name -> [inLinks, outLinks, alienOccupancy]
    aliens,      \* Map.aliens: alien -> Alien.cityName
    nlinks,      \* number of AddLink calls made so far
    seeded,      \* SeedAliens has been called
    panicked,    \* a nil *City was dereferenced: the process has crashed
    last,        \* the last operation and how it ended
    pc,          \* position of main / Simulation.Run
    alienMoves,  \* Simulation.alienMoves: alien -> tracked move count
    moved,       \* history: successful moves of each alien alive when the
                 \* simulation was created (saturating at MinMoves + 1)
    dirMap,      \* the Map of the direction revision of world/map.go:
                 \* [cityNames, cities: name -> [north, south, east, west]]
    flagN,       \* main: numAliens, the value of the flag -n
    badEntry,    \* history: a map entry with an invalid direction was read
    queue,       \* PriorityQueue.queue: the items, in heap order
    pushed,      \* history: number of Push calls
    popped,      \* history: the items Pop returned, in order
    seedLoop,    \* SeedAliens: [n, i, citiesChecked] of the loops in progress
    slice        \* RemoveStrFromSlice: [s, strMatch] of the last call and
                 \* the slice r it returned

vars == <<cities, aliens, nlinks, seeded, panicked, last, pc, alienMoves, moved,
          dirMap, flagN, badEntry, queue, pushed, popped, seedLoop,
          slice>>

mapVars == <<cities, aliens>>
simVars == <<pc, alienMoves, moved>>
cfgVars == <<dirMap, flagN, badEntry>>
queueVars == <<queue, pushed, popped>>

----------------------------------------------------------------------------
\* Generic helpers

Perms(S) ==
    {f \in [1..Cardinality(S) -> S] :
        \A i, j \in 1..Cardinality(S) : i # j => f[i] # f[j]}

Count(s, x) == Cardinality({i \in 1..Len(s) : s[i] = x})

Remove(f, k) == [x \in (DOMAIN f) \ {k} |-> f[x]]

----------------------------------------------------------------------------
\* utils.RemoveStrFromSlice: drop the first element equal to strMatch.

\* "for i, str := range s" with its break: the index at which the loop
\* stops, 0 when it runs to the end.
RECURSIVE RangeMatch(_, _, _)
RangeMatch(s, strMatch, i) ==
    IF i > Len(s) THEN 0
    ELSE IF s[i] = strMatch THEN i
    ELSE RangeMatch(s, strMatch, i + 1)

\* The range loop without its break: the last matching index.
FirstIndexNoBreak(s, strMatch) ==
    IF \E i \in 1..Len(s) : s[i] = strMatch
    THEN CHOOSE i \in 1..Len(s) :
            s[i] = strMatch /\ \A j \in (i + 1)..Len(s) : s[j] # strMatch
    ELSE 0

FirstIndex(s, strMatch) == RangeMatch(s, strMatch, 1)

RemoveStrFromSlice(s, strMatch) ==
    LET i == FirstIndex(s, strMatch)
    IN  IF i = 0 THEN s ELSE SubSeq(s, 1, i - 1) \o SubSeq(s, i + 1, Len(s))

----------------------------------------------------------------------------
\* Map.NumCities, Map.NumAliens

NumCities(cs) == Cardinality(DOMAIN cs)
NumAliens(al) == Cardinality(DOMAIN al)

NewCity == [inLinks |-> <<>>, outLinks |-> <<>>, alienOccupancy |-> {}]

\* AddLinkMap without the in link of the linked city.
AddLinkMapNoInLink(cs, cityName, linkCityName) ==
    LET c1 == IF cityName \in DOMAIN cs THEN cs
              ELSE [x \in (DOMAIN cs) \cup {cityName} |->
                        IF x = cityName THEN NewCity ELSE cs[x]]
        c2 == IF linkCityName \in DOMAIN c1 THEN c1
              ELSE [x \in (DOMAIN c1) \cup {linkCityName} |->
                        IF x = linkCityName THEN NewCity ELSE c1[x]]
    IN  [c2 EXCEPT ![cityName].outLinks = Append(@, linkCityName)]

\* Map.AddLink lines 182-200 alone: the cities that are unseen are created.
AddCities(cs, cityName, linkCityName) ==
    [x \in (DOMAIN cs) \cup {cityName, linkCityName} |->
        IF x \in DOMAIN cs THEN cs[x] ELSE NewCity]

\* Map.AddLink: create the cities that are unseen, then append the out link
\* to the origin and the in link to the linked city.
AddLinkMap(cs, cityName, linkCityName) ==
    LET c1 == IF cityName \in DOMAIN cs THEN cs
              ELSE [x \in (DOMAIN cs) \cup {cityName} |->
                        IF x = cityName THEN NewCity ELSE cs[x]]
        c2 == IF linkCityName \in DOMAIN c1 THEN c1
              ELSE [x \in (DOMAIN c1) \cup {linkCityName} |->
                        IF x = linkCityName THEN NewCity ELSE c1[x]]
        c3 == [c2 EXCEPT ![cityName].outLinks = Append(@, linkCityName)]
    IN  [c3 EXCEPT ![linkCityName].inLinks = Append(@, cityName)]

----------------------------------------------------------------------------
\* Map.destroyCity.  A map state is a record [cities, aliens, panic].

\* First loop of destroyCity: "for _, inCityLinkName := range city.inLinks".
\* The range reads the n elements of the backing array arr of city.inLinks as
\* it is when each is reached; RemoveStrFromSlice shifts that array in place
\* when the in-link city is the destroyed city itself.
RECURSIVE DestroyInLinks(_, _, _, _, _)
DestroyInLinks(cs, name, arr, i, n) ==
    IF i > n THEN [cities |-> cs, panic |-> FALSE]
    ELSE LET y == arr[i] IN
         IF y \notin DOMAIN cs THEN [cities |-> cs, panic |-> TRUE]
         ELSE LET cs1 == [cs EXCEPT
                            ![y].outLinks = RemoveStrFromSlice(@, name),
                            ![y].inLinks = RemoveStrFromSlice(@, name)]
                  l1 == Len(cs1[name].inLinks)
                  arr1 == IF y = name
                          THEN cs1[name].inLinks \o SubSeq(arr, l1 + 1, n)
                          ELSE arr
              IN  DestroyInLinks(cs1, name, arr1, i + 1, n)

\* Second loop of destroyCity: "for _, outCityLinkName := range city.outLinks".
RECURSIVE DestroyOutLinks(_, _, _, _)
DestroyOutLinks(cs, name, out, i) ==
    IF i > Len(out) THEN [cities |-> cs, panic |-> FALSE]
    ELSE LET z == out[i] IN
         IF z \notin DOMAIN cs THEN [cities |-> cs, panic |-> TRUE]
         ELSE DestroyOutLinks(
                 [cs EXCEPT ![z].inLinks = RemoveStrFromSlice(@, name)],
                 name, out, i + 1)

destroyCity(st, name) ==
    LET al1 == [a \in (DOMAIN st.aliens) \ st.cities[name].alienOccupancy |->
                    st.aliens[a]]
        r1 == DestroyInLinks(st.cities, name, st.cities[name].inLinks, 1,
                             Len(st.cities[name].inLinks))
        r2 == DestroyOutLinks(r1.cities, name, r1.cities[name].outLinks, 1)
    IN  IF r1.panic THEN [cities |-> r1.cities, aliens |-> al1, panic |-> TRUE]
        ELSE IF r2.panic
             THEN [cities |-> r2.cities, aliens |-> al1, panic |-> TRUE]
        ELSE [cities |-> Remove(r2.cities, name), aliens |-> al1,
              panic |-> FALSE]

----------------------------------------------------------------------------
\* Map.ExecuteFights: "for _, alien := range m.aliens" visits the aliens in
\* an arbitrary order; an alien deleted before it is reached is not visited.

\* FightLoop that returns after the first city it destroys.
RECURSIVE FightLoopOnlyFirst(_, _, _)
FightLoopOnlyFirst(st, order, i) ==
    IF i > Len(order) \/ st.panic THEN st
    ELSE LET a == order[i] IN
         IF a \notin DOMAIN st.aliens THEN FightLoopOnlyFirst(st, order, i + 1)
         ELSE LET occupiedCity == st.aliens[a] IN
              IF occupiedCity \notin DOMAIN st.cities
              THEN [st EXCEPT !.panic = TRUE]
              ELSE IF Cardinality(st.cities[occupiedCity].alienOccupancy)
                        = MaxOccupancy
                   THEN destroyCity(st, occupiedCity)
                   ELSE FightLoopOnlyFirst(st, order, i + 1)

\* FightLoop with the occupancy test "<=" for "==".
RECURSIVE FightLoopAtMost(_, _, _)
FightLoopAtMost(st, order, i) ==
    IF i > Len(order) \/ st.panic THEN st
    ELSE LET a == order[i] IN
         IF a \notin DOMAIN st.aliens THEN FightLoopAtMost(st, order, i + 1)
         ELSE LET occupiedCity == st.aliens[a] IN
              IF occupiedCity \notin DOMAIN st.cities
              THEN [st EXCEPT !.panic = TRUE]
              ELSE IF Cardinality(st.cities[occupiedCity].alienOccupancy)
                        <= MaxOccupancy
                   THEN FightLoopAtMost(destroyCity(st, occupiedCity),
                                        order, i + 1)
                   ELSE FightLoopAtMost(st, order, i + 1)

RECURSIVE FightLoop(_, _, _)
FightLoop(st, order, i) ==
    IF i > Len(order) \/ st.panic THEN st
    ELSE LET a == order[i] IN
         IF a \notin DOMAIN st.aliens THEN FightLoop(st, order, i + 1)
         ELSE LET occupiedCity == st.aliens[a] IN
              IF occupiedCity \notin DOMAIN st.cities
              THEN [st EXCEPT !.panic = TRUE]
              ELSE IF Cardinality(st.cities[occupiedCity].alienOccupancy)
                        = MaxOccupancy
                   THEN FightLoop(destroyCity(st, occupiedCity), order, i + 1)
                   ELSE FightLoop(st, order, i + 1)

ExecuteFightsMap(cs, al, order) ==
    FightLoop([cities |-> cs, aliens |-> al, panic |-> FALSE], order, 1)

\* Every outcome of one call, over the orders the range can take.
ExecuteFightsResults(cs, al) ==
    {ExecuteFightsMap(cs, al, order) : order \in Perms(DOMAIN al)}

----------------------------------------------------------------------------
\* Map.SeedAliens

\* The inner loop "for city == nil": the cities it can end with, given that
\* every city name can be drawn at every turn.  A draw of a full city changes
\* nothing; a draw of a city with room counts in citiesChecked.
\* SeedPick with the occupancy test "<=" for "<".
RECURSIVE SeedPickOffByOne(_, _, _)
SeedPickOffByOne(cs, totalCities, citiesChecked) ==
    UNION { IF Cardinality(cs[t].alienOccupancy) <= MaxOccupancy
            THEN IF Len(cs[t].outLinks) > 0 THEN {t}
                 ELSE IF citiesChecked + 1 >= totalCities THEN {t}
                 ELSE SeedPickOffByOne(cs, totalCities, citiesChecked + 1)
            ELSE {}
          : t \in DOMAIN cs }

RECURSIVE SeedPick(_, _, _)
SeedPick(cs, totalCities, citiesChecked) ==
    UNION { IF Cardinality(cs[t].alienOccupancy) < MaxOccupancy
            THEN IF Len(cs[t].outLinks) > 0 THEN {t}
                 ELSE IF citiesChecked + 1 >= totalCities THEN {t}
                 ELSE SeedPick(cs, totalCities, citiesChecked + 1)
            ELSE {}
          : t \in DOMAIN cs }

\* Placement of alien i + 1 in city c.
SeedPlace(cs, al, i, c) ==
    [cities |-> [cs EXCEPT ![c].alienOccupancy = @ \cup {i + 1}],
     aliens |-> [a \in (DOMAIN al) \cup {i + 1} |->
                    IF a = i + 1 THEN c ELSE al[a]]]

\* The outer loop "for i := uint(0); i < n; i++": every map it can end with.
RECURSIVE SeedLoop(_, _, _, _)
SeedLoop(cs, al, i, n) ==
    IF i >= n THEN {[cities |-> cs, aliens |-> al]}
    ELSE UNION { SeedLoop(SeedPlace(cs, al, i, c).cities,
                          SeedPlace(cs, al, i, c).aliens, i + 1, n)
                 : c \in SeedPick(cs, NumCities(cs), 0) }

SeedAliensMap(cs, al, n) == SeedLoop(cs, al, 0, n)

\* One pass of the loop "for city == nil" that never lets an alien occupy a
\* city without outbound links.
SeedTryNoTrapped(cs, t, totalCities, citiesChecked) ==
    IF Cardinality(cs[t].alienOccupancy) < MaxOccupancy
    THEN [chosen |-> Len(cs[t].outLinks) > 0,
          citiesChecked |-> IF Len(cs[t].outLinks) > 0
                            THEN citiesChecked + 1 ELSE citiesChecked]
    ELSE [chosen |-> FALSE, citiesChecked |-> citiesChecked]

\* One pass of the loop "for city == nil" in which the PRNG drew city t:
\* whether t is taken for the alien, and the new value of citiesChecked.
SeedTry(cs, t, totalCities, citiesChecked) ==
    IF Cardinality(cs[t].alienOccupancy) < MaxOccupancy
    THEN [chosen |-> \/ Len(cs[t].outLinks) > 0
                     \/ citiesChecked + 1 >= totalCities,
          citiesChecked |-> citiesChecked + 1]
    ELSE [chosen |-> FALSE, citiesChecked |-> citiesChecked]

----------------------------------------------------------------------------
\* Map.MoveAlien

\* LinkScan with the occupancy test off by one ("<=" for "<").
RECURSIVE LinkScanOffByOne(_, _, _)
LinkScanOffByOne(cs, links, i) ==
    IF i > Len(links) THEN [kind |-> "none", to |-> ""]
    ELSE IF links[i] \notin DOMAIN cs THEN [kind |-> "panic", to |-> ""]
    ELSE IF Cardinality(cs[links[i]].alienOccupancy) <= MaxOccupancy
         THEN [kind |-> "move", to |-> links[i]]
         ELSE LinkScanOffByOne(cs, links, i + 1)

\* "for _, linkCityName := range city.outLinks": the out links are consulted
\* in the order they are stored (the shuffle is a TODO in the source).
RECURSIVE LinkScan(_, _, _)
LinkScan(cs, links, i) ==
    IF i > Len(links) THEN [kind |-> "none", to |-> ""]
    ELSE IF links[i] \notin DOMAIN cs THEN [kind |-> "panic", to |-> ""]
    ELSE IF Cardinality(cs[links[i]].alienOccupancy) < MaxOccupancy
         THEN [kind |-> "move", to |-> links[i]]
         ELSE LinkScan(cs, links, i + 1)

\* What the body of the outer loop does for one alien.
AlienTry(cs, al, a) ==
    IF al[a] \notin DOMAIN cs THEN [kind |-> "panic", to |-> ""]
    ELSE LinkScan(cs, cs[al[a]].outLinks, 1)

\* MoveTo without the delete from the city the alien leaves.
MoveToKeepOld(cs, al, a, to) ==
    [cities |-> [cs EXCEPT ![to].alienOccupancy = @ \cup {a}],
     aliens |-> [al EXCEPT ![a] = to]]

\* MoveTo without the update of alien.cityName.
MoveToNoLocation(cs, al, a, to) ==
    LET c1 == [cs EXCEPT ![al[a]].alienOccupancy = @ \ {a}]
    IN  [cities |-> [c1 EXCEPT ![to].alienOccupancy = @ \cup {a}],
         aliens |-> al]

\* The move itself: map.go lines 230-233.
MoveTo(cs, al, a, to) ==
    LET c1 == [cs EXCEPT ![al[a]].alienOccupancy = @ \ {a}]
    IN  [cities |-> [c1 EXCEPT ![to].alienOccupancy = @ \cup {a}],
         aliens |-> [al EXCEPT ![a] = to]]

\* The name MoveAlien returns to Simulation.Run on success: the alien moved.
MoveAlienName(a) == a

\* AlienScan that gives up after the first alien it tries.
RECURSIVE AlienScanFirstOnly(_, _, _, _)
AlienScanFirstOnly(cs, al, order, i) ==
    IF i > Len(order) \/ i > 1
    THEN [cities |-> cs, aliens |-> al, res |-> "error", name |-> 0]
    ELSE LET t == AlienTry(cs, al, order[i]) IN
         IF t.kind = "panic"
         THEN [cities |-> cs, aliens |-> al, res |-> "panic", name |-> 0]
         ELSE IF t.kind = "move"
         THEN [cities |-> MoveTo(cs, al, order[i], t.to).cities,
               aliens |-> MoveTo(cs, al, order[i], t.to).aliens,
               res |-> "ok", name |-> MoveAlienName(order[i])]
         ELSE AlienScanFirstOnly(cs, al, order, i + 1)

\* "for _, alien := range m.aliens" in the arbitrary order given.
RECURSIVE AlienScan(_, _, _, _)
AlienScan(cs, al, order, i) ==
    IF i > Len(order)
    THEN [cities |-> cs, aliens |-> al, res |-> "error", name |-> 0]
    ELSE LET t == AlienTry(cs, al, order[i]) IN
         IF t.kind = "panic"
         THEN [cities |-> cs, aliens |-> al, res |-> "panic", name |-> 0]
         ELSE IF t.kind = "move"
         THEN [cities |-> MoveTo(cs, al, order[i], t.to).cities,
               aliens |-> MoveTo(cs, al, order[i], t.to).aliens,
               res |-> "ok", name |-> MoveAlienName(order[i])]
         ELSE AlienScan(cs, al, order, i + 1)

MoveAlienMap(cs, al, order) == AlienScan(cs, al, order, 1)

\* Every outcome of one call, over the orders the range can take.
MoveAlienResults(cs, al) ==
    {MoveAlienMap(cs, al, order) : order \in Perms(DOMAIN al)}

----------------------------------------------------------------------------
\* Simulation

\* Map.AlienNames, as NewSimulation uses it: the names of the living aliens.
AlienNames(al) == DOMAIN al

\* NewSimulation: every known alien starts with zero tracked moves.
NewAlienMoves(al) == [a \in AlienNames(al) |-> 0]

\* canContinue with the threshold off by one.
canContinueOffByOne(al, am) ==
    IF NumAliens(al) = 0 THEN FALSE
    ELSE \E a \in DOMAIN am : am[a] < MinMoves - 1

\* Simulation.canContinue
canContinue(al, am) ==
    IF NumAliens(al) = 0 THEN FALSE
    ELSE \E a \in DOMAIN am : am[a] < MinMoves

\* CountMove that stops tracking one move early.
CountMoveEarly(am, alienName) ==
    IF alienName \in DOMAIN am
    THEN IF am[alienName] + 1 >= MinMoves - 1
         THEN Remove(am, alienName)
         ELSE [am EXCEPT ![alienName] = @ + 1]
    ELSE am

\* CountMove that stops tracking an alien at its first move.
CountMoveDropAlways(am, alienName) ==
    IF alienName \in DOMAIN am THEN Remove(am, alienName) ELSE am

\* Simulation.Run lines 47-56: count the move, stop tracking at minAlienMoves.
CountMove(am, alienName) ==
    IF alienName \in DOMAIN am
    THEN IF am[alienName] + 1 >= MinMoves
         THEN Remove(am, alienName)
         ELSE [am EXCEPT ![alienName] = @ + 1]
    ELSE am

Saturate(k) == IF k > MinMoves THEN MinMoves + 1 ELSE k

NoteMove(mv, a) ==
    IF a \in DOMAIN mv THEN [mv EXCEPT ![a] = Saturate(@ + 1)] ELSE mv

----------------------------------------------------------------------------
\* The direction revision of world/map.go (lines 1-102): a city has one slot
\* per direction, and AddLink takes the direction of the link.

\* A direction token is a sequence of characters.
northDir == <<"n", "o", "r", "t", "h">>
southDir == <<"s", "o", "u", "t", "h">>
eastDir == <<"e", "a", "s", "t">>
westDir == <<"w", "e", "s", "t">>

\* strings.ToLower on the letters the tokens are made of.
LowerChar(ch) ==
    CASE ch = "N" -> "n" [] ch = "O" -> "o" [] ch = "R" -> "r"
      [] ch = "T" -> "t" [] ch = "H" -> "h" [] ch = "S" -> "s"
      [] ch = "U" -> "u" [] ch = "E" -> "e" [] ch = "A" -> "a"
      [] ch = "W" -> "w" [] ch = "P" -> "p" [] OTHER -> ch

\* ToLower that leaves the string as it is.
ToLowerNone(str) == str

ToLower(str) == [i \in 1..Len(str) |-> LowerChar(str[i])]

NewDirCity == [north |-> "", south |-> "", east |-> "", west |-> ""]

NewDirMap == [cityNames |-> <<>>, cities |-> [x \in {} |-> NewDirCity]]

\* NumCities of the direction revision.
NumDirCities(m) == Len(m.cityNames)

\* Lines 60-70: the origin and the linked city are added when unseen.
AddDirCity(m, name) ==
    IF name \in DOMAIN m.cities THEN m
    ELSE [cityNames |-> Append(m.cityNames, name),
          cities |-> [x \in (DOMAIN m.cities) \cup {name} |->
                        IF x = name THEN NewDirCity ELSE m.cities[x]]]

\* AddLink of the direction revision: the map it leaves and whether it
\* returned an error.
AddLinkDir(m, cityName, linkDir, linkCity) ==
    LET m2 == AddDirCity(AddDirCity(m, cityName), linkCity)
        d == ToLower(linkDir)
    IN  IF d = northDir
        THEN [map |-> [m2 EXCEPT !.cities[cityName].north = linkCity],
              err |-> FALSE]
        ELSE IF d = southDir
        THEN [map |-> [m2 EXCEPT !.cities[cityName].south = linkCity],
              err |-> FALSE]
        ELSE IF d = eastDir
        THEN [map |-> [m2 EXCEPT !.cities[cityName].east = linkCity],
              err |-> FALSE]
        ELSE IF d = westDir
        THEN [map |-> [m2 EXCEPT !.cities[cityName].west = linkCity],
              err |-> FALSE]
        ELSE [map |-> m2, err |-> TRUE]

----------------------------------------------------------------------------
\* The priority queue (package queue).  An item is a record [id, priority];
\* the queue is the slice "items" kept in heap order by container/heap.

\* testSortable.Priority: the item has priority over the other one.
Priority(item, other) == item.priority > other.priority

\* Less with the two items the wrong way round.
LessSwapped(q, i, j) == Priority(q[j], q[i])

\* items.Less; indices are those of Go plus one.
Less(q, i, j) == Priority(q[i], q[j])

\* items.Swap
Swap(q, i, j) == [q EXCEPT ![i] = q[j], ![j] = q[i]]

\* PriorityQueue.Size
Size(q) == Len(q)

\* container/heap up(h, j): the item at j rises while it is Less than its
\* parent.
RECURSIVE HeapUp(_, _)
HeapUp(q, j) ==
    IF j = 1 THEN q
    ELSE LET i == j \div 2 IN
         IF ~Less(q, j, i) THEN q ELSE HeapUp(Swap(q, i, j), i)

\* container/heap down(h, i, n): the item at i sinks below the child that is
\* Less than the other, among the first n items.
RECURSIVE HeapDown(_, _, _)
HeapDown(q, i, n) ==
    LET j1 == 2 * i
        j2 == j1 + 1
    IN  IF j1 > n THEN q
        ELSE LET j == IF j2 <= n /\ Less(q, j2, j1) THEN j2 ELSE j1 IN
             IF ~Less(q, j, i) THEN q ELSE HeapDown(Swap(q, i, j), j, n)

\* PriorityQueue.Push: heap.Push appends the item (items.Push) and lets it
\* rise.
PushItem(q, s) == HeapUp(Append(q, s), Len(q) + 1)

\* PriorityQueue.Pop: heap.Pop swaps the first and the last item, lets the
\* new first item sink among the others, and items.Pop takes the last item.
PopItem(q) ==
    LET n == Len(q)
        q1 == HeapDown(Swap(q, 1, n), 1, n - 1)
    IN  [queue |-> SubSeq(q1, 1, n - 1), item |-> q1[n]]

----------------------------------------------------------------------------
\* Operations on the map, called in any order (the package's API and, as in
\* its tests, destroyCity).

\* SeedAliens' loop variables before the call: n aliens asked for, i placed,
\* citiesChecked draws of a city with room for the alien being placed.
NewSeedLoop == [n |-> 0, i |-> 0, citiesChecked |-> 0]

\* No call of RemoveStrFromSlice yet.
NewSlice == [s |-> <<>>, strMatch |-> "", r |-> <<>>]

EmptyFn == [x \in {} |-> 0]

Init ==
    /\ cities = EmptyFn
    /\ aliens = EmptyFn
    /\ nlinks = 0
    /\ seeded = FALSE
    /\ panicked = FALSE
    /\ last = [op |-> "NewMap", res |-> "ok"]
    /\ pc = "api"
    /\ alienMoves = EmptyFn
    /\ moved = EmptyFn
    /\ dirMap = NewDirMap
    /\ flagN = 0
    /\ badEntry = FALSE
    /\ queue = <<>>
    /\ pushed = 0
    /\ popped = <<>>
    /\ seedLoop = NewSeedLoop
    /\ slice = NewSlice

AddLinkStep(cityName, linkCityName) ==
    /\ ~panicked
    /\ nlinks < MaxLinks
    /\ cities' = AddLinkMap(cities, cityName, linkCityName)
    /\ nlinks' = nlinks + 1
    /\ last' = [op |-> "AddLink", res |-> "ok"]
    /\ UNCHANGED <<aliens, seeded, panicked>>
    /\ UNCHANGED cfgVars
    /\ UNCHANGED queueVars
    /\ UNCHANGED slice
    /\ UNCHANGED seedLoop

SeedAliensStep(n) ==
    /\ ~panicked
    /\ ~seeded
    /\ n <= 2 * NumCities(cities)
    /\ \E st \in SeedAliensMap(cities, aliens, n) :
          /\ cities' = st.cities
          /\ aliens' = st.aliens
    /\ seeded' = TRUE
    /\ seedLoop' = [n |-> n, i |-> n, citiesChecked |-> 0]
    /\ last' = [op |-> "SeedAliens", res |-> "ok"]
    /\ UNCHANGED <<nlinks, panicked>>
    /\ UNCHANGED cfgVars
    /\ UNCHANGED queueVars
    /\ UNCHANGED slice

MoveAlienStep ==
    /\ ~panicked
    /\ \E r \in MoveAlienResults(cities, aliens) :
          /\ cities' = r.cities
          /\ aliens' = r.aliens
          /\ panicked' = (r.res = "panic")
          /\ last' = [op |-> "MoveAlien", res |-> r.res]
    /\ UNCHANGED <<nlinks, seeded>>
    /\ UNCHANGED cfgVars
    /\ UNCHANGED queueVars
    /\ UNCHANGED slice
    /\ UNCHANGED seedLoop

ExecuteFightsStep ==
    /\ ~panicked
    /\ \E r \in ExecuteFightsResults(cities, aliens) :
          /\ cities' = r.cities
          /\ aliens' = r.aliens
          /\ panicked' = r.panic
          /\ last' = [op |-> "ExecuteFights",
                      res |-> IF r.panic THEN "panic" ELSE "ok"]
    /\ UNCHANGED <<nlinks, seeded>>
    /\ UNCHANGED cfgVars
    /\ UNCHANGED queueVars
    /\ UNCHANGED slice
    /\ UNCHANGED seedLoop

DestroyCityStep(name) ==
    /\ ~panicked
    /\ name \in DOMAIN cities
    /\ LET r == destroyCity([cities |-> cities, aliens |-> aliens,
                             panic |-> FALSE], name) IN
          /\ cities' = r.cities
          /\ aliens' = r.aliens
          /\ panicked' = r.panic
          /\ last' = [op |-> "destroyCity",
                      res |-> IF r.panic THEN "panic" ELSE "ok"]
    /\ UNCHANGED <<nlinks, seeded>>
    /\ UNCHANGED cfgVars
    /\ UNCHANGED queueVars
    /\ UNCHANGED slice
    /\ UNCHANGED seedLoop

AddLink(cityName, linkCityName) ==
    pc = "api" /\ AddLinkStep(cityName, linkCityName) /\ UNCHANGED simVars

SeedAliens(n) ==
    pc = "api" /\ SeedAliensStep(n) /\ UNCHANGED simVars

MoveAlien ==
    pc = "api" /\ MoveAlienStep /\ UNCHANGED simVars

ExecuteFights ==
    pc = "api" /\ ExecuteFightsStep /\ UNCHANGED simVars

DestroyCity(name) ==
    pc = "api" /\ DestroyCityStep(name) /\ UNCHANGED simVars

Next ==
    \/ \E c, d \in CityNames : AddLink(c, d)
    \/ \E n \in 0..MaxAliens : SeedAliens(n)
    \/ MoveAlien
    \/ ExecuteFights
    \/ \E c \in CityNames : DestroyCity(c)

Spec == Init /\ [][Next]_vars

----------------------------------------------------------------------------
\* The program as main runs it: buildWorldMap (one AddLink per link of the
\* map file), SeedAliens(numAliens), ExecuteFights, NewSimulation, Run.

InitMain ==
    /\ cities = EmptyFn
    /\ aliens = EmptyFn
    /\ nlinks = 0
    /\ seeded = FALSE
    /\ panicked = FALSE
    /\ last = [op |-> "NewMap", res |-> "ok"]
    /\ pc = "build"
    /\ alienMoves = EmptyFn
    /\ moved = EmptyFn
    /\ dirMap = NewDirMap
    /\ flagN = 0
    /\ badEntry = FALSE
    /\ queue = <<>>
    /\ pushed = 0
    /\ popped = <<>>
    /\ seedLoop = NewSeedLoop
    /\ slice = NewSlice

\* buildWorldMap: one more link of the map file.
MainAddLink(cityName, linkCityName) ==
    /\ pc = "build"
    /\ AddLinkStep(cityName, linkCityName)
    /\ UNCHANGED simVars

\* main: numAliens is at least 1 and at most twice the number of cities.
MainSeed(numAliens) ==
    /\ pc = "build"
    /\ numAliens > 0
    /\ SeedAliensStep(numAliens)
    /\ pc' = "seeded"
    /\ UNCHANGED <<alienMoves, moved>>

\* main: the initial ExecuteFights.
MainFights ==
    /\ pc = "seeded"
    /\ ExecuteFightsStep
    /\ pc' = IF panicked' THEN "crashed" ELSE "fought"
    /\ UNCHANGED <<alienMoves, moved>>

NewSimulation ==
    /\ pc = "fought"
    /\ alienMoves' = NewAlienMoves(aliens)
    /\ moved' = [a \in AlienNames(aliens) |-> 0]
    /\ pc' = "check"
    /\ last' = [op |-> "NewSimulation", res |-> "ok"]
    /\ UNCHANGED <<cities, aliens, nlinks, seeded, panicked>>
    /\ UNCHANGED cfgVars
    /\ UNCHANGED queueVars
    /\ UNCHANGED slice
    /\ UNCHANGED seedLoop

\* Run: the loop condition "for s.canContinue()".
RunCheck ==
    /\ pc = "check"
    /\ pc' = IF canContinue(aliens, alienMoves) THEN "move" ELSE "done"
    /\ last' = [op |-> "canContinue", res |-> "ok"]
    /\ UNCHANGED <<cities, aliens, nlinks, seeded, panicked, alienMoves, moved>>
    /\ UNCHANGED cfgVars
    /\ UNCHANGED queueVars
    /\ UNCHANGED slice
    /\ UNCHANGED seedLoop

\* RunMove that goes back to the loop condition when MoveAlien fails.
RunMoveRetry ==
    /\ pc = "move"
    /\ ~panicked
    /\ \E r \in MoveAlienResults(cities, aliens) :
          /\ cities' = r.cities
          /\ aliens' = r.aliens
          /\ panicked' = (r.res = "panic")
          /\ last' = [op |-> "MoveAlien", res |-> r.res]
          /\ pc' = IF r.res = "ok" THEN "fight"
                   ELSE IF r.res = "error" THEN "check" ELSE "crashed"
          /\ alienMoves' = IF r.res = "ok" THEN CountMove(alienMoves, r.name)
                           ELSE alienMoves
          /\ moved' = IF r.res = "ok" THEN NoteMove(moved, r.name) ELSE moved
    /\ UNCHANGED <<nlinks, seeded>>
    /\ UNCHANGED cfgVars
    /\ UNCHANGED queueVars
    /\ UNCHANGED slice
    /\ UNCHANGED seedLoop

\* Run lines 42-56: MoveAlien, the error return, the move count.
RunMove ==
    /\ pc = "move"
    /\ ~panicked
    /\ \E r \in MoveAlienResults(cities, aliens) :
          /\ cities' = r.cities
          /\ aliens' = r.aliens
          /\ panicked' = (r.res = "panic")
          /\ last' = [op |-> "MoveAlien", res |-> r.res]
          /\ pc' = IF r.res = "ok" THEN "fight"
                   ELSE IF r.res = "error" THEN "failed" ELSE "crashed"
          /\ alienMoves' = IF r.res = "ok" THEN CountMove(alienMoves, r.name)
                           ELSE alienMoves
          /\ moved' = IF r.res = "ok" THEN NoteMove(moved, r.name) ELSE moved
    /\ UNCHANGED <<nlinks, seeded>>
    /\ UNCHANGED cfgVars
    /\ UNCHANGED queueVars
    /\ UNCHANGED slice
    /\ UNCHANGED seedLoop

\* RunFight without the ExecuteFights call.
RunFightSkipped ==
    /\ pc = "fight"
    /\ ~panicked
    /\ pc' = "check"
    /\ last' = [op |-> "ExecuteFights", res |-> "ok"]
    /\ UNCHANGED <<cities, aliens, nlinks, seeded, panicked, alienMoves, moved>>
    /\ UNCHANGED cfgVars
    /\ UNCHANGED queueVars
    /\ UNCHANGED slice
    /\ UNCHANGED seedLoop

\* Run line 58: ExecuteFights, then back to the loop condition.
RunFight ==
    /\ pc = "fight"
    /\ ExecuteFightsStep
    /\ pc' = IF panicked' THEN "crashed" ELSE "check"
    /\ UNCHANGED <<alienMoves, moved>>

NextMain ==
    \/ \E c, d \in CityNames : MainAddLink(c, d)
    \/ \E n \in 1..MaxAliens : MainSeed(n)
    \/ MainFights
    \/ NewSimulation
    \/ RunCheck
    \/ RunMove
    \/ RunFight

SpecMain == InitMain /\ [][NextMain]_vars

----------------------------------------------------------------------------
\* The graph alone: AddLink and destroyCity in any order, no aliens.

InitGraph ==
    /\ cities = EmptyFn
    /\ aliens = EmptyFn
    /\ nlinks = 0
    /\ seeded = FALSE
    /\ panicked = FALSE
    /\ last = [op |-> "NewMap", res |-> "ok"]
    /\ pc = "graph"
    /\ alienMoves = EmptyFn
    /\ moved = EmptyFn
    /\ dirMap = NewDirMap
    /\ flagN = 0
    /\ badEntry = FALSE
    /\ queue = <<>>
    /\ pushed = 0
    /\ popped = <<>>
    /\ seedLoop = NewSeedLoop
    /\ slice = NewSlice

GraphAddLink(cityName, linkCityName) ==
    /\ pc = "graph"
    /\ ~panicked
    /\ nlinks < MaxGraphLinks
    /\ cities' = AddLinkMap(cities, cityName, linkCityName)
    /\ nlinks' = nlinks + 1
    /\ last' = [op |-> "AddLink", res |-> "ok"]
    /\ UNCHANGED <<aliens, seeded, panicked, pc, alienMoves, moved>>
    /\ UNCHANGED cfgVars
    /\ UNCHANGED queueVars
    /\ UNCHANGED slice
    /\ UNCHANGED seedLoop

GraphDestroyCity(name) ==
    pc = "graph" /\ DestroyCityStep(name) /\ UNCHANGED simVars

NextGraph ==
    \/ \E c, d \in CityNames : GraphAddLink(c, d)
    \/ \E c \in CityNames : GraphDestroyCity(c)

SpecGraph == InitGraph /\ [][NextGraph]_vars

----------------------------------------------------------------------------
\* Seeding and fights, as the package's tests run them: the map is built by
\* AddLink, SeedAliens is called once, then ExecuteFights.

InitFights ==
    /\ cities = EmptyFn
    /\ aliens = EmptyFn
    /\ nlinks = 0
    /\ seeded = FALSE
    /\ panicked = FALSE
    /\ last = [op |-> "NewMap", res |-> "ok"]
    /\ pc = "fights"
    /\ alienMoves = EmptyFn
    /\ moved = EmptyFn
    /\ dirMap = NewDirMap
    /\ flagN = 0
    /\ badEntry = FALSE
    /\ queue = <<>>
    /\ pushed = 0
    /\ popped = <<>>
    /\ seedLoop = NewSeedLoop
    /\ slice = NewSlice

FightsAddLink(cityName, linkCityName) ==
    /\ pc = "fights"
    /\ ~seeded
    /\ nlinks < MaxFightLinks
    /\ cities' = AddLinkMap(cities, cityName, linkCityName)
    /\ nlinks' = nlinks + 1
    /\ last' = [op |-> "AddLink", res |-> "ok"]
    /\ UNCHANGED <<aliens, seeded, panicked, pc, alienMoves, moved>>
    /\ UNCHANGED cfgVars
    /\ UNCHANGED queueVars
    /\ UNCHANGED slice
    /\ UNCHANGED seedLoop

FightsSeedAliens(n) ==
    pc = "fights" /\ SeedAliensStep(n) /\ UNCHANGED simVars

FightsExecuteFights ==
    pc = "fights" /\ seeded /\ ExecuteFightsStep /\ UNCHANGED simVars

NextFights ==
    \/ \E c, d \in CityNames : FightsAddLink(c, d)
    \/ \E n \in 0..MaxFightAliens : FightsSeedAliens(n)
    \/ FightsExecuteFights

SpecFights == InitFights /\ [][NextFights]_vars

----------------------------------------------------------------------------
\* The direction revision: AddLink called with direction tokens in several
\* letter cases and with tokens that are no direction.

TokNORTH == <<"N", "O", "R", "T", "H">>
TokSouth == <<"S", "o", "U", "t", "h">>
TokEAST == <<"E", "A", "S", "T">>
TokWest == <<"W", "e", "s", "t">>
TokUp == <<"U", "P">>
TokNort == <<"n", "o", "r", "t">>
TokEmpty == <<>>

DirTokens ==
    {northDir, TokNORTH, TokSouth, TokEAST, TokWest, TokUp, TokNort, TokEmpty}

InitDir ==
    /\ cities = EmptyFn
    /\ aliens = EmptyFn
    /\ nlinks = 0
    /\ seeded = FALSE
    /\ panicked = FALSE
    /\ last = [op |-> "NewMap", res |-> "ok"]
    /\ pc = "dir"
    /\ alienMoves = EmptyFn
    /\ moved = EmptyFn
    /\ dirMap = NewDirMap
    /\ flagN = 0
    /\ badEntry = FALSE
    /\ queue = <<>>
    /\ pushed = 0
    /\ popped = <<>>
    /\ seedLoop = NewSeedLoop
    /\ slice = NewSlice

DirAddLink(cityName, linkDir, linkCity) ==
    /\ pc = "dir"
    /\ nlinks < MaxDirLinks
    /\ LET r == AddLinkDir(dirMap, cityName, linkDir, linkCity) IN
          /\ dirMap' = r.map
          /\ badEntry' = (badEntry \/ r.err)
          /\ last' = [op |-> "AddLinkDir",
                      res |-> IF r.err THEN "error" ELSE "ok",
                      cityName |-> cityName, linkDir |-> linkDir,
                      linkCity |-> linkCity]
    /\ nlinks' = nlinks + 1
    /\ UNCHANGED <<cities, aliens, seeded, panicked, pc, alienMoves, moved,
                   flagN>>
    /\ UNCHANGED queueVars
    /\ UNCHANGED slice
    /\ UNCHANGED seedLoop

NextDir ==
    \E c, d \in CityNames : \E t \in DirTokens : DirAddLink(c, t, d)

SpecDir == InitDir /\ [][NextDir]_vars

----------------------------------------------------------------------------
\* main with a map file whose entries carry direction tokens.  main.go calls
\* AddLink(cityName, direction, linkCity) and drops what it returns; the
\* call is AddLink of the direction revision (validation, lines 73-84), and
\* the link it accepts is recorded as Map.AddLink records it (lines 181-205).

ConfigTokens == {northDir, TokSouth, TokUp}

InitConfig ==
    /\ cities = EmptyFn
    /\ aliens = EmptyFn
    /\ nlinks = 0
    /\ seeded = FALSE
    /\ panicked = FALSE
    /\ last = [op |-> "NewMap", res |-> "ok"]
    /\ pc = "flags"
    /\ alienMoves = EmptyFn
    /\ moved = EmptyFn
    /\ dirMap = NewDirMap
    /\ flagN \in 0..MaxAliens
    /\ badEntry = FALSE
    /\ queue = <<>>
    /\ pushed = 0
    /\ popped = <<>>
    /\ seedLoop = NewSeedLoop
    /\ slice = NewSlice

\* main lines 29-35: numAliens == 0 is fatal.
ConfigFlags ==
    /\ pc = "flags"
    /\ pc' = IF flagN = 0 THEN "fatal" ELSE "build"
    /\ UNCHANGED <<cities, aliens, nlinks, seeded, panicked, last, alienMoves,
                   moved>>
    /\ UNCHANGED cfgVars
    /\ UNCHANGED queueVars
    /\ UNCHANGED slice
    /\ UNCHANGED seedLoop

\* buildWorldMap lines 99-109: one link of a map entry; the value AddLink
\* returns is not looked at.
ConfigAddLink(cityName, linkDir, linkCity) ==
    /\ pc = "build"
    /\ nlinks < MaxConfigLinks
    /\ LET r == AddLinkDir(dirMap, cityName, linkDir, linkCity) IN
          /\ dirMap' = r.map
          /\ badEntry' = (badEntry \/ r.err)
          /\ cities' = IF r.err THEN AddCities(cities, cityName, linkCity)
                       ELSE AddLinkMap(cities, cityName, linkCity)
          /\ last' = [op |-> "AddLink",
                      res |-> IF r.err THEN "error" ELSE "ok"]
    /\ nlinks' = nlinks + 1
    /\ UNCHANGED <<aliens, seeded, panicked, pc, alienMoves, moved, flagN>>
    /\ UNCHANGED queueVars
    /\ UNCHANGED slice
    /\ UNCHANGED seedLoop

\* main lines 45-47: more aliens than twice the number of cities is fatal.
ConfigFatal ==
    /\ pc = "build"
    /\ flagN > NumCities(cities) * 2
    /\ pc' = "fatal"
    /\ UNCHANGED <<cities, aliens, nlinks, seeded, panicked, last, alienMoves,
                   moved>>
    /\ UNCHANGED cfgVars
    /\ UNCHANGED queueVars
    /\ UNCHANGED slice
    /\ UNCHANGED seedLoop

\* main line 52: SeedAliens(numAliens).
ConfigSeed ==
    /\ pc = "build"
    /\ ~(flagN > NumCities(cities) * 2)
    /\ SeedAliensStep(flagN)
    /\ pc' = "seeded"
    /\ UNCHANGED <<alienMoves, moved>>

NextConfig ==
    \/ ConfigFlags
    \/ \E c, d \in CityNames : \E t \in ConfigTokens : ConfigAddLink(c, t, d)
    \/ ConfigFatal
    \/ ConfigSeed
    \/ MainFights
    \/ NewSimulation
    \/ RunCheck
    \/ RunMove
    \/ RunFight

SpecConfig == InitConfig /\ [][NextConfig]_vars

----------------------------------------------------------------------------
\* The priority queue under any sequence of Push and Pop.

InitQueue ==
    /\ cities = EmptyFn
    /\ aliens = EmptyFn
    /\ nlinks = 0
    /\ seeded = FALSE
    /\ panicked = FALSE
    /\ last = [op |-> "NewPriorityQueue", res |-> "ok"]
    /\ pc = "queue"
    /\ alienMoves = EmptyFn
    /\ moved = EmptyFn
    /\ dirMap = NewDirMap
    /\ flagN = 0
    /\ badEntry = FALSE
    /\ queue = <<>>
    /\ pushed = 0
    /\ popped = <<>>
    /\ seedLoop = NewSeedLoop
    /\ slice = NewSlice

\* Push of a new item; the k-th item pushed has id k.
Push(priority) ==
    /\ pc = "queue"
    /\ ~panicked
    /\ pushed < MaxPushes
    /\ queue' = PushItem(queue, [id |-> pushed + 1, priority |-> priority])
    /\ pushed' = pushed + 1
    /\ last' = [op |-> "Push", res |-> "ok"]
    /\ UNCHANGED <<cities, aliens, nlinks, seeded, panicked, pc, alienMoves,
                   moved, popped>>
    /\ UNCHANGED cfgVars
    /\ UNCHANGED seedLoop
    /\ UNCHANGED slice

\* Pop; on an empty queue heap.Pop indexes the slice out of range and the
\* process panics.
Pop ==
    /\ pc = "queue"
    /\ ~panicked
    /\ IF Size(queue) = 0
       THEN /\ panicked' = TRUE
            /\ last' = [op |-> "Pop", res |-> "panic"]
            /\ UNCHANGED queueVars
       ELSE /\ queue' = PopItem(queue).queue
            /\ popped' = Append(popped, PopItem(queue).item)
            /\ last' = [op |-> "Pop", res |-> "ok"]
            /\ UNCHANGED <<panicked, pushed>>
    /\ UNCHANGED <<cities, aliens, nlinks, seeded, pc, alienMoves, moved>>
    /\ UNCHANGED cfgVars
    /\ UNCHANGED seedLoop
    /\ UNCHANGED slice

NextQueue ==
    \/ \E p \in 1..MaxPriority : Push(p)
    \/ Pop

SpecQueue == InitQueue /\ [][NextQueue]_vars

----------------------------------------------------------------------------
\* A map is built and seeded once; then MoveAlien and ExecuteFights are
\* called in any order.

InitWar ==
    /\ cities = EmptyFn
    /\ aliens = EmptyFn
    /\ nlinks = 0
    /\ seeded = FALSE
    /\ panicked = FALSE
    /\ last = [op |-> "NewMap", res |-> "ok"]
    /\ pc = "war"
    /\ alienMoves = EmptyFn
    /\ moved = EmptyFn
    /\ dirMap = NewDirMap
    /\ flagN = 0
    /\ badEntry = FALSE
    /\ queue = <<>>
    /\ pushed = 0
    /\ popped = <<>>
    /\ seedLoop = NewSeedLoop
    /\ slice = NewSlice

WarAddLink(cityName, linkCityName) ==
    /\ pc = "war"
    /\ ~panicked
    /\ ~seeded
    /\ nlinks < MaxWarLinks
    /\ cities' = AddLinkMap(cities, cityName, linkCityName)
    /\ nlinks' = nlinks + 1
    /\ last' = [op |-> "AddLink", res |-> "ok"]
    /\ UNCHANGED <<aliens, seeded, panicked, pc, alienMoves, moved>>
    /\ UNCHANGED cfgVars
    /\ UNCHANGED queueVars
    /\ UNCHANGED slice
    /\ UNCHANGED seedLoop

WarSeedAliens(n) ==
    pc = "war" /\ SeedAliensStep(n) /\ UNCHANGED simVars

WarMoveAlien ==
    pc = "war" /\ seeded /\ MoveAlienStep /\ UNCHANGED simVars

WarExecuteFights ==
    pc = "war" /\ seeded /\ ExecuteFightsStep /\ UNCHANGED simVars

NextWar ==
    \/ \E c, d \in CityNames : WarAddLink(c, d)
    \/ \E n \in 0..MaxWarAliens : WarSeedAliens(n)
    \/ WarMoveAlien
    \/ WarExecuteFights

SpecWar == InitWar /\ [][NextWar]_vars

----------------------------------------------------------------------------
\* utils.RemoveStrFromSlice on its own: called on any slice of at most
\* MaxSliceLen strings, and again on the slice it returned.

SliceStrs == {"a", "b", "c"}
MatchStrs == SliceStrs \cup {"z"}

Slices == UNION {[1..k -> SliceStrs] : k \in 0..MaxSliceLen}

InitSlice ==
    /\ cities = EmptyFn
    /\ aliens = EmptyFn
    /\ nlinks = 0
    /\ seeded = FALSE
    /\ panicked = FALSE
    /\ last = [op |-> "NewSlice", res |-> "ok"]
    /\ pc = "slice"
    /\ alienMoves = EmptyFn
    /\ moved = EmptyFn
    /\ dirMap = NewDirMap
    /\ flagN = 0
    /\ badEntry = FALSE
    /\ queue = <<>>
    /\ pushed = 0
    /\ popped = <<>>
    /\ seedLoop = NewSeedLoop
    /\ \E s0 \in Slices : slice = [s |-> s0, strMatch |-> "", r |-> s0]

\* r := RemoveStrFromSlice(s, strMatch), s being the slice held so far.
RemoveStr(strMatch) ==
    /\ pc = "slice"
    /\ slice' = [s |-> slice.r, strMatch |-> strMatch,
                 r |-> RemoveStrFromSlice(slice.r, strMatch)]
    /\ last' = [op |-> "RemoveStrFromSlice", res |-> "ok"]
    /\ UNCHANGED <<cities, aliens, nlinks, seeded, panicked, pc, alienMoves,
                   moved>>
    /\ UNCHANGED cfgVars
    /\ UNCHANGED queueVars
    /\ UNCHANGED seedLoop

NextSlice == \E x \in MatchStrs : RemoveStr(x)

SpecSlice == InitSlice /\ [][NextSlice]_vars

----------------------------------------------------------------------------
\* SeedAliens one PRNG draw at a time: a map is built (links added, cities
\* destroyed), SeedAliens(n) is called once, and each step of the call is one
\* pass of its inner loop.

InitSeed ==
    /\ cities = EmptyFn
    /\ aliens = EmptyFn
    /\ nlinks = 0
    /\ seeded = FALSE
    /\ panicked = FALSE
    /\ last = [op |-> "NewMap", res |-> "ok"]
    /\ pc = "build"
    /\ alienMoves = EmptyFn
    /\ moved = EmptyFn
    /\ dirMap = NewDirMap
    /\ flagN = 0
    /\ badEntry = FALSE
    /\ queue = <<>>
    /\ pushed = 0
    /\ popped = <<>>
    /\ seedLoop = NewSeedLoop
    /\ slice = NewSlice

SeedAddLink(cityName, linkCityName) ==
    /\ pc = "build"
    /\ ~panicked
    /\ nlinks < MaxSeedLinks
    /\ cities' = AddLinkMap(cities, cityName, linkCityName)
    /\ nlinks' = nlinks + 1
    /\ last' = [op |-> "AddLink", res |-> "ok"]
    /\ UNCHANGED <<aliens, seeded, panicked, pc, alienMoves, moved>>
    /\ UNCHANGED cfgVars
    /\ UNCHANGED queueVars
    /\ UNCHANGED slice
    /\ UNCHANGED seedLoop

SeedDestroyCity(name) ==
    pc = "build" /\ DestroyCityStep(name) /\ UNCHANGED simVars

\* The call and the statements before the outer loop.
SeedCall(n) ==
    /\ pc = "build"
    /\ ~panicked
    /\ pc' = "draw"
    /\ seeded' = TRUE
    /\ seedLoop' = [n |-> n, i |-> 0, citiesChecked |-> 0]
    /\ last' = [op |-> "SeedAliens", res |-> "running"]
    /\ UNCHANGED <<cities, aliens, nlinks, panicked, alienMoves, moved>>
    /\ UNCHANGED cfgVars
    /\ UNCHANGED queueVars
    /\ UNCHANGED slice

\* One pass of the inner loop with city t drawn; when t is taken, alien
\* i + 1 is placed and the outer loop moves on to the next alien.
SeedDraw(t) ==
    /\ pc = "draw"
    /\ seedLoop.i < seedLoop.n
    /\ t \in DOMAIN cities
    /\ LET r == SeedTry(cities, t, NumCities(cities), seedLoop.citiesChecked) IN
          IF r.chosen
          THEN /\ cities' = SeedPlace(cities, aliens, seedLoop.i, t).cities
               /\ aliens' = SeedPlace(cities, aliens, seedLoop.i, t).aliens
               /\ seedLoop' = [seedLoop EXCEPT !.i = @ + 1,
                                               !.citiesChecked = 0]
          ELSE /\ seedLoop' = [seedLoop EXCEPT
                                  !.citiesChecked = r.citiesChecked]
               /\ UNCHANGED mapVars
    /\ UNCHANGED <<nlinks, seeded, panicked, last, pc, alienMoves, moved>>
    /\ UNCHANGED cfgVars
    /\ UNCHANGED queueVars
    /\ UNCHANGED slice

\* r.Intn(len(cityNames)) on a map without cities: Intn panics on 0.
SeedIntnPanic ==
    /\ pc = "draw"
    /\ seedLoop.i < seedLoop.n
    /\ DOMAIN cities = {}
    /\ pc' = "crashed"
    /\ panicked' = TRUE
    /\ last' = [op |-> "SeedAliens", res |-> "panic"]
    /\ UNCHANGED <<cities, aliens, nlinks, seeded, alienMoves, moved>>
    /\ UNCHANGED cfgVars
    /\ UNCHANGED queueVars
    /\ UNCHANGED slice
    /\ UNCHANGED seedLoop

\* The outer loop's condition i < n fails: SeedAliens returns.
SeedReturn ==
    /\ pc = "draw"
    /\ seedLoop.i >= seedLoop.n
    /\ pc' = "returned"
    /\ last' = [op |-> "SeedAliens", res |-> "ok"]
    /\ UNCHANGED <<cities, aliens, nlinks, seeded, panicked, alienMoves, moved>>
    /\ UNCHANGED cfgVars
    /\ UNCHANGED queueVars
    /\ UNCHANGED slice
    /\ UNCHANGED seedLoop

NextSeed ==
    \/ \E c, d \in CityNames : SeedAddLink(c, d)
    \/ \E c \in CityNames : SeedDestroyCity(c)
    \/ \E n \in 0..MaxSeedAliens : SeedCall(n)
    \/ \E t \in CityNames : SeedDraw(t)
    \/ SeedIntnPanic
    \/ SeedReturn

SpecSeed == InitSeed /\ [][NextSeed]_vars

\* Fair random draws: a PRNG that draws every city again and again takes, with
\* probability one, every draw that stays possible; the call itself runs on.
FairSpecSeed ==
    /\ SpecSeed
    /\ \A t \in CityNames : SF_vars(SeedDraw(t))
    /\ WF_vars(SeedReturn)

----------------------------------------------------------------------------
\* Properties

Links(cs, c) == cs[c].outLinks \o cs[c].inLinks

\* Every name in a link list is a city of the map.
NoDanglingLinks(cs) ==
    \A c \in DOMAIN cs : \A k \in 1..Len(Links(cs, c)) :
        Links(cs, c)[k] \in DOMAIN cs

Occupancy(cs, c) == Cardinality(cs[c].alienOccupancy)

\* C1: after a city destruction that returned (destroyCity called directly or
\* by ExecuteFights), every destroyed city is out of the city mapping, its
\* name is in no surviving city's outLinks or inLinks, its occupants are out
\* of the alien mapping, and every name left in a link list is a city of the
\* map.
C1_DestructionLeavesNoTrace ==
    [][ (last'.op \in {"destroyCity", "ExecuteFights"} /\ ~panicked') =>
          \A x \in (DOMAIN cities) \ (DOMAIN cities') :
             /\ \A c \in DOMAIN cities' :
                   Count(Links(cities', c), x) = 0
             /\ cities[x].alienOccupancy \cap (DOMAIN aliens') = {}
             /\ NoDanglingLinks(cities') ]_vars

\* C2: whenever the last operation returned, alien a is in city c's
\* alienOccupancy exactly when a is in the alien mapping with cityName c, and
\* every living alien's cityName is a city of the map.
C2_OccupancyConsistent ==
    ~panicked =>
        /\ \A c \in DOMAIN cities : \A a \in AlienIds :
              (a \in cities[c].alienOccupancy)
                  <=> (a \in DOMAIN aliens /\ aliens[a] = c)
        /\ \A a \in DOMAIN aliens : aliens[a] \in DOMAIN cities

\* After a successful MoveAlien: a full city and an alien elsewhere.
C2_Witness ==
    /\ seeded
    /\ last = [op |-> "MoveAlien", res |-> "ok"]
    /\ \E a, b \in DOMAIN aliens : aliens[a] # aliens[b]
    /\ \E c \in DOMAIN cities : Occupancy(cities, c) = MaxOccupancy

\* C3: no city ever holds more than MaxOccupancy aliens.
C3_OccupancyBounded ==
    \A c \in DOMAIN cities : Occupancy(cities, c) <= MaxOccupancy

\* A full city next to an alien that MoveAlien has just failed to move.
C3_Witness ==
    /\ last = [op |-> "MoveAlien", res |-> "error"]
    /\ \E a \in DOMAIN aliens :
          /\ aliens[a] \in DOMAIN cities
          /\ \E k \in 1..Len(cities[aliens[a]].outLinks) :
                LET d == cities[aliens[a]].outLinks[k] IN
                d \in DOMAIN cities /\ Occupancy(cities, d) = MaxOccupancy

\* C4: outLinks and inLinks mirror each other: for surviving cities A and B,
\* B occurs in A's outLinks as often as A occurs in B's inLinks.
C4_LinksMirror ==
    ~panicked =>
        \A a, b \in DOMAIN cities :
            Count(cities[a].outLinks, b) = Count(cities[b].inLinks, a)

\* C5: Run does not go on moving aliens once every alien still alive has
\* moved at least MinMoves times: when the loop condition has just let the
\* loop continue, some living alien has fewer than MinMoves moves.
C5_StopsWhenSurvivorsDone ==
    pc = "move" =>
        \E a \in DOMAIN aliens : a \in DOMAIN moved /\ moved[a] < MinMoves

\* C6: when Run has returned nil, the population is empty or every alien
\* alive when the simulation was created has moved at least MinMoves times;
\* no living alien has fewer than MinMoves moves.
C6_RunReturnsAfterMinMoves ==
    pc = "done" =>
        /\ \/ DOMAIN aliens = {}
           \/ \A a \in DOMAIN moved : moved[a] >= MinMoves
        /\ \A a \in DOMAIN aliens : a \in DOMAIN moved /\ moved[a] >= MinMoves

C6_Witness ==
    /\ pc = "done"
    /\ Cardinality(DOMAIN moved) >= 2
    /\ DOMAIN aliens = DOMAIN moved
    /\ \A a \in DOMAIN moved : moved[a] >= MinMoves

\* Two cities, each with the other as its only out link and only in link.
TwoCityLoop(cs) ==
    \E x, y \in DOMAIN cs :
        /\ x # y
        /\ DOMAIN cs = {x, y}
        /\ cs[x].outLinks = <<y>> /\ cs[x].inLinks = <<y>>
        /\ cs[y].outLinks = <<x>> /\ cs[y].inLinks = <<x>>

Running == pc \in {"check", "move", "fight"}

\* C7: with one alien on two cities linked in both directions, every step of
\* Run keeps both cities and the alien, never fails, counts one move per
\* MoveAlien, and returns at the loop condition exactly when the alien has
\* MinMoves moves.
C7_OneAlienRunsMinMoves ==
    [][ (Running /\ TwoCityLoop(cities) /\ Cardinality(DOMAIN moved) = 1) =>
          /\ TwoCityLoop(cities')
          /\ DOMAIN aliens' = DOMAIN moved
          /\ pc' \notin {"failed", "crashed"}
          /\ \A a \in DOMAIN moved :
                /\ pc = "move" => moved'[a] = moved[a] + 1
                /\ pc # "move" => moved'[a] = moved[a]
                /\ pc = "check" => (pc' = "done" <=> moved[a] = MinMoves)
                /\ pc' = "done" => pc = "check" ]_vars

C7_Witness ==
    /\ pc = "done"
    /\ TwoCityLoop(cities)
    /\ Cardinality(DOMAIN moved) = 1
    /\ \A a \in DOMAIN moved : a \in DOMAIN aliens /\ moved[a] = MinMoves

\* Alien a occupies a city with an out link to a city with room.
HasDestination(cs, al, a) ==
    /\ al[a] \in DOMAIN cs
    /\ \E k \in 1..Len(cs[al[a]].outLinks) :
          LET d == cs[al[a]].outLinks[k] IN
          d \in DOMAIN cs /\ Occupancy(cs, d) < MaxOccupancy

\* C8: MoveAlien returns an error exactly when no alien has a destination,
\* and succeeds whenever some alien has one.
C8_ErrorIffNoDestination ==
    [][ last'.op = "MoveAlien" =>
          /\ (last'.res = "error")
                <=> ~(\E a \in DOMAIN aliens : HasDestination(cities, aliens, a))
          /\ (\E a \in DOMAIN aliens : HasDestination(cities, aliens, a))
                => last'.res = "ok" ]_vars

\* What a successful MoveAlien leaves alone, the alien a having gone from
\* city from to city to.
MoveFrame(a, from, to) ==
    /\ Count(cities[from].outLinks, to) > 0
    /\ Occupancy(cities, to) < MaxOccupancy
    /\ a \in cities'[to].alienOccupancy
    /\ aliens' = [aliens EXCEPT ![a] = to]
    /\ DOMAIN cities' = DOMAIN cities
    /\ \A c \in DOMAIN cities :
          /\ cities'[c].outLinks = cities[c].outLinks
          /\ cities'[c].inLinks = cities[c].inLinks
          /\ c \notin {from, to} =>
                cities'[c].alienOccupancy = cities[c].alienOccupancy
    /\ cities'[to].alienOccupancy \ {a} = cities[to].alienOccupancy \ {a}
    /\ cities'[from].alienOccupancy \ {a} = cities[from].alienOccupancy \ {a}

\* C9 as stated: a successful MoveAlien moves exactly one alien, which leaves
\* the occupants of its previous city and joins those of a city in that
\* city's outLinks that had room; everything else is unchanged.
C9_MovesExactlyOne ==
    [][ (last'.op = "MoveAlien" /\ last'.res = "ok") =>
          \E a \in DOMAIN aliens :
             /\ a \notin cities'[aliens[a]].alienOccupancy
             /\ MoveFrame(a, aliens[a], aliens'[a]) ]_vars

\* C9 as amended: the alien leaves the occupants of its previous city unless
\* the destination is that same city (a link from a city to itself), and
\* then the map is unchanged.
C9_MovesExactlyOneOrSelf ==
    [][ (last'.op = "MoveAlien" /\ last'.res = "ok") =>
          \E a \in DOMAIN aliens :
             /\ aliens'[a] # aliens[a]
                   => a \notin cities'[aliens[a]].alienOccupancy
             /\ aliens'[a] = aliens[a] => mapVars' = mapVars
             /\ MoveFrame(a, aliens[a], aliens'[a]) ]_vars

\* An alien has just joined another one in a city.
C9_Witness ==
    /\ last = [op |-> "MoveAlien", res |-> "ok"]
    /\ \E c \in DOMAIN cities : Occupancy(cities, c) = MaxOccupancy
    /\ \E c \in DOMAIN cities : Occupancy(cities, c) = 0

\* C10: every out-neighbour with room of the city of an alien is a possible
\* destination of a MoveAlien call for that alien.
C10_EveryNeighbourPossible ==
    ~panicked =>
        \A a \in DOMAIN aliens :
            aliens[a] \in DOMAIN cities =>
                \A k \in 1..Len(cities[aliens[a]].outLinks) :
                    LET d == cities[aliens[a]].outLinks[k] IN
                    (d \in DOMAIN cities /\ Occupancy(cities, d) < MaxOccupancy)
                        => \E r \in MoveAlienResults(cities, aliens) :
                              r.res = "ok" /\ r.name = a /\ r.aliens[a] = d

\* The cities that hold exactly MaxOccupancy aliens.
FullCities(cs) == {c \in DOMAIN cs : Occupancy(cs, c) = MaxOccupancy}

\* C11: an ExecuteFights call that returns has destroyed every city that held
\* exactly MaxOccupancy aliens when it was called and no other city: no
\* surviving city holds MaxOccupancy aliens, the occupants of the destroyed
\* cities and only they are gone from the alien mapping, and every city that
\* held fewer than MaxOccupancy aliens survives with the same occupants.
C11_FightsDestroyEveryFullCity ==
    [][ (last'.op = "ExecuteFights" /\ ~panicked') =>
          /\ DOMAIN cities' = (DOMAIN cities) \ FullCities(cities)
          /\ FullCities(cities') = {}
          /\ DOMAIN aliens' =
                (DOMAIN aliens) \ UNION {cities[c].alienOccupancy :
                                            c \in FullCities(cities)}
          /\ \A a \in DOMAIN aliens' : aliens'[a] = aliens[a]
          /\ \A c \in DOMAIN cities' :
                cities'[c].alienOccupancy = cities[c].alienOccupancy ]_vars

\* ExecuteFights has emptied a map of more than one city on which
\* 2 * MaxOccupancy aliens were seeded.
C11_Witness ==
    /\ last = [op |-> "ExecuteFights", res |-> "ok"]
    /\ seeded
    /\ nlinks >= 2
    /\ DOMAIN cities = {}
    /\ DOMAIN aliens = {}

\* Two maps with the same cities, the same links as multisets, the same
\* occupants and the same aliens.
SameMap(r1, r2) ==
    /\ DOMAIN r1.cities = DOMAIN r2.cities
    /\ r1.aliens = r2.aliens
    /\ \A c \in DOMAIN r1.cities \cap DOMAIN r2.cities :
          /\ r1.cities[c].alienOccupancy = r2.cities[c].alienOccupancy
          /\ \A x \in CityNames :
                /\ Count(r1.cities[c].outLinks, x)
                      = Count(r2.cities[c].outLinks, x)
                /\ Count(r1.cities[c].inLinks, x)
                      = Count(r2.cities[c].inLinks, x)

\* C12: the map ExecuteFights leaves is the same for every order in which
\* the full cities are destroyed.
C12_FightOrderIrrelevant ==
    (seeded /\ ~panicked) =>
        \A r1, r2 \in ExecuteFightsResults(cities, aliens) : SameMap(r1, r2)

\* C13: ExecuteFights on a map in which no city holds MaxOccupancy aliens
\* changes nothing, and so does an ExecuteFights call that follows another.
C13_FightsNoOpWithoutFullCity ==
    [][ (last'.op = "ExecuteFights"
            /\ (FullCities(cities) = {} \/ last.op = "ExecuteFights")) =>
          (mapVars' = mapVars /\ ~panicked') ]_vars

\* ExecuteFights has returned and every seeded alien is still alive: the
\* call found no full city.
C13_Witness ==
    /\ last = [op |-> "ExecuteFights", res |-> "ok"]
    /\ NumAliens(aliens) = MaxAliens
    /\ \E a, b \in DOMAIN aliens : aliens[a] # aliens[b]

\* The numbers of aliens SeedAliens may be asked for on the map cs.
SeedCounts(cs) == {n \in 0..MaxFightAliens : n <= 2 * NumCities(cs)}

\* C14: SeedAliens(n), called once on a map with n <= 2*|cities|, completes
\* and adds exactly the aliens alien1..alienN, each an occupant of exactly
\* the city it names, and no city holds more than MaxOccupancy aliens (so
\* each alien went to a city that had room when it was placed);
\* SeedAliens(0) adds none.
C14_SeedPlacesExactlyN ==
    ~seeded =>
        \A n \in SeedCounts(cities) :
            /\ SeedAliensMap(cities, aliens, n) # {}
            /\ \A st \in SeedAliensMap(cities, aliens, n) :
                  /\ DOMAIN st.aliens = 1..n
                  /\ DOMAIN st.cities = DOMAIN cities
                  /\ \A c \in DOMAIN st.cities :
                        /\ Occupancy(st.cities, c) <= MaxOccupancy
                        /\ st.cities[c].alienOccupancy =
                              {a \in 1..n : st.aliens[a] = c}

\* SeedAliens has placed 2 * MaxOccupancy aliens and filled two cities.
C14_Witness ==
    /\ last = [op |-> "SeedAliens", res |-> "ok"]
    /\ DOMAIN aliens = 1..(2 * MaxOccupancy)
    /\ Cardinality(FullCities(cities)) = 2

\* C15: after SeedAliens, a city without out links holds an alien only if
\* every city with an out link is filled to MaxOccupancy.
C15_DeadEndSeededLast ==
    last.op = "SeedAliens" =>
        ((\E c \in DOMAIN cities :
              Len(cities[c].outLinks) = 0 /\ Occupancy(cities, c) > 0)
           => \A c \in DOMAIN cities :
                 Len(cities[c].outLinks) > 0
                     => Occupancy(cities, c) = MaxOccupancy)

\* C16: SeedAliens(n) has one outcome: the same graph and the same n give
\* the same assignment of aliens to cities.
C16_SeedDeterministic ==
    ~seeded =>
        \A n \in SeedCounts(cities) :
            \A s1, s2 \in SeedAliensMap(cities, aliens, n) :
                s1.aliens = s2.aliens

\* The city x as it is in cs, an unseen city being empty.
CityOrNew(cs, x) == IF x \in DOMAIN cs THEN cs[x] ELSE NewCity

\* The step has appended the out link origin -> destination.
AddedLink(origin, destination) ==
    /\ origin \in DOMAIN cities'
    /\ cities'[origin].outLinks =
          Append(CityOrNew(cities, origin).outLinks, destination)

Spelling(tok) ==
    CASE tok \in {northDir, TokNORTH} -> "north"
      [] tok = TokSouth -> "south"
      [] tok = TokEAST -> "east"
      [] tok = TokWest -> "west"
      [] OTHER -> "none"

DirCityOrNew(m, x) == IF x \in DOMAIN m.cities THEN m.cities[x] ELSE NewDirCity

\* C18: AddLink with a token that spells none of north, south, east, west
\* returns an error and changes no link of any city; with a token that
\* spells one of them in any letter case it returns no error and records the
\* linked city in that direction of the origin, and changes no other link.
C18_DirectionValidated ==
    [][ last'.op = "AddLinkDir" =>
          LET dir == Spelling(last'.linkDir)
              origin == last'.cityName
          IN  /\ (last'.res = "error") <=> (dir = "none")
              /\ {origin, last'.linkCity} \subseteq DOMAIN dirMap'.cities
              /\ \A x \in DOMAIN dirMap'.cities :
                    \A k \in {"north", "south", "east", "west"} :
                        dirMap'.cities[x][k] =
                            IF x = origin /\ k = dir
                            THEN last'.linkCity
                            ELSE DirCityOrNew(dirMap, x)[k] ]_vars

\* An invalid token has just been refused, after a token in mixed case was
\* accepted as south.
C18_Witness ==
    /\ last.op = "AddLinkDir"
    /\ last.res = "error"
    /\ \E x \in DOMAIN dirMap.cities : dirMap.cities[x].south # ""

\* C19: a configuration error stops the program before the simulation: once
\* a map entry with an invalid direction token has been read, SeedAliens and
\* Run are not executed; when the map is built and n exceeds 2*|cities|, the
\* program stops without seeding; and a stopped program does nothing more.
C19_ConfigErrorStopsRun ==
    [][ /\ badEntry' => (~seeded' /\ pc' \in {"build", "fatal"})
        /\ (pc = "build" /\ pc' # "build" /\ flagN > 2 * NumCities(cities))
              => (pc' = "fatal" /\ ~seeded')
        /\ pc # "fatal" ]_vars

\* C20: when MoveAlien returns an error inside Run, Run returns at once:
\* the map and the move counters are as they were before the call, and no
\* further step (MoveAlien, ExecuteFights, loop condition) is taken.
C20_RunStopsOnMoveError ==
    [][ /\ (pc = "move" /\ last'.op = "MoveAlien" /\ last'.res = "error")
              => /\ pc' = "failed"
                 /\ mapVars' = mapVars
                 /\ alienMoves' = alienMoves
                 /\ moved' = moved
        /\ pc # "failed" ]_vars

\* Run has returned the error of MoveAlien after at least one move, with
\* aliens alive and moves still owed.
C20_Witness ==
    /\ pc = "failed"
    /\ \E a \in DOMAIN aliens : a \in DOMAIN moved /\ moved[a] >= 1
    /\ \E a \in DOMAIN alienMoves : alienMoves[a] < MinMoves

\* Some living alien has a destination.
SomeDestination == \E a \in DOMAIN aliens : HasDestination(cities, aliens, a)

\* C21 as stated: at every loop iteration of Run (a non-empty population and
\* a tracked count under MinMoves) some alien has a legal move, and Run never
\* returns the no-legal-move error.
C21_AlwaysLegalMove ==
    /\ pc = "move" => SomeDestination
    /\ pc # "failed"

\* C21 as amended: Run returns the no-legal-move error only from a loop
\* iteration in which every living alien is trapped (none occupies a city
\* with an out link to a city with room); when some alien has a legal move,
\* the iteration does not end with that error.
C21_ErrorOnlyWhenTrapped ==
    [][ /\ pc' = "failed" =>
              (pc = "move" /\ DOMAIN aliens # {} /\ ~SomeDestination
                 /\ \E a \in DOMAIN alienMoves : alienMoves[a] < MinMoves)
        /\ (pc = "move" /\ SomeDestination) => pc' # "failed" ]_vars

\* Run has returned the error with two aliens alive, each in a city without
\* out links.
C21_Witness ==
    /\ pc = "failed"
    /\ NumAliens(aliens) >= 2
    /\ \A a \in DOMAIN aliens : Len(cities[aliens[a]].outLinks) = 0

\* C22: as long as Pop is only called on a non-empty queue, Size() is the
\* number of pushes minus the number of pops, no item is popped twice or
\* popped and still in the queue, every item in the queue or popped was
\* pushed, and the item a Pop returns is one over which no item left in the
\* queue has priority.
C22_PopReturnsHighest ==
    [][ ~panicked' =>
          /\ Size(queue') = pushed' - Len(popped')
          /\ \A i, j \in 1..Len(popped') : i # j => popped'[i].id # popped'[j].id
          /\ \A i \in 1..Len(popped') : \A k \in 1..Len(queue') :
                popped'[i].id # queue'[k].id
          /\ \A i, j \in 1..Len(queue') : i # j => queue'[i].id # queue'[j].id
          /\ {popped'[i].id : i \in 1..Len(popped')}
                \cup {queue'[k].id : k \in 1..Len(queue')} = 1..pushed'
          /\ last'.op = "Pop" =>
                /\ Len(popped') = Len(popped) + 1
                /\ \E k \in 1..Len(queue) : queue[k] = popped'[Len(popped')]
                /\ \A k \in 1..Len(queue') :
                      ~Priority(queue'[k], popped'[Len(popped')]) ]_vars

\* Five items were pushed, the highest priority last, and popped down to two
\* items left, in non-increasing priority.
C22_Witness ==
    /\ last = [op |-> "Pop", res |-> "ok"]
    /\ pushed = MaxPushes
    /\ Len(popped) = 3
    /\ popped[1].id = MaxPushes
    /\ popped[1].priority > popped[2].priority
    /\ popped[2].priority > popped[3].priority

\* C23: in the driver as main starts it, no city holds MaxOccupancy aliens
\* when MoveAlien is called; a successful MoveAlien is followed by
\* ExecuteFights, and the loop condition is only evaluated after
\* NewSimulation or ExecuteFights; and a step of the loop destroys at most
\* one city and removes at most two aliens.
C23_OneFightPerIteration ==
    [][ /\ pc' = "move" => FullCities(cities') = {}
        /\ (pc = "move" /\ last'.res = "ok") => pc' = "fight"
        /\ pc = "fight" =>
              (last'.op = "ExecuteFights" /\ pc' \in {"check", "crashed"})
        /\ pc' = "check" => pc \in {"fought", "fight"}
        /\ Running =>
              /\ Cardinality((DOMAIN cities) \ (DOMAIN cities')) <= 1
              /\ Cardinality((DOMAIN aliens) \ (DOMAIN aliens')) <= 2 ]_vars

\* The loop has just destroyed a city with an alien that had moved into it.
C23_Witness ==
    /\ pc = "check"
    /\ last = [op |-> "ExecuteFights", res |-> "ok"]
    /\ \E a \in DOMAIN moved : a \notin DOMAIN aliens /\ moved[a] >= 1
    /\ DOMAIN aliens # {}

\* The loop condition of a driver that keeps every counter: the population
\* is non-empty and some alien of the simulation has a count under MinMoves.
KeepAllContinue ==
    /\ NumAliens(aliens) # 0
    /\ \E a \in DOMAIN moved : moved[a] < MinMoves

\* C24: dropping a counter at MinMoves changes no decision of the driver: at
\* every evaluation of the loop condition, after the same moves and fights,
\* canContinue on the counters that are still tracked agrees with the
\* condition of the driver that keeps every counter.
C24_DropIsBookkeeping ==
    pc = "check" => (canContinue(aliens, alienMoves) <=> KeepAllContinue)

\* The loop condition is evaluated with a living alien whose counter was
\* dropped and a living alien that is still tracked.
C24_Witness ==
    /\ pc = "check"
    /\ \E a \in DOMAIN aliens :
          a \in DOMAIN moved /\ moved[a] >= MinMoves /\ a \notin DOMAIN alienMoves
    /\ \E b \in DOMAIN aliens : b \in DOMAIN alienMoves

\* C25: SeedAliens(n) returns, under fair draws, whenever the map has at
\* least one city and n <= MaxOccupancy * |cities| (also when no city has an
\* outbound link); with n > MaxOccupancy * |cities| it never returns.
C25_SeedTerminatesIffRoom ==
    /\ (/\ pc = "draw"
        /\ NumCities(cities) >= 1
        /\ seedLoop.n <= MaxOccupancy * NumCities(cities))
          ~> (pc = "returned")
    /\ [](pc = "returned" => seedLoop.n <= MaxOccupancy * NumCities(cities))

C25_Witness ==
    /\ pc = "returned"
    /\ NumCities(cities) >= 1
    /\ \A c \in DOMAIN cities : Len(cities[c].outLinks) = 0
    /\ seedLoop.n = MaxOccupancy * NumCities(cities)
    /\ NumAliens(aliens) = seedLoop.n

\* C26: after seeding, a call of MoveAlien or ExecuteFights never adds an
\* alien and removes exactly MaxOccupancy aliens for each city it destroys;
\* so a population seeded with an odd n is never empty.
C26_PairsDieWithCities ==
    [][ (seeded /\ last'.op \in {"MoveAlien", "ExecuteFights"}) =>
          /\ DOMAIN aliens' \subseteq DOMAIN aliens
          /\ NumAliens(aliens) - NumAliens(aliens')
                = MaxOccupancy * (NumCities(cities) - NumCities(cities'))
          /\ seedLoop.n % 2 = 1 => NumAliens(aliens') # 0 ]_vars

\* C27: RemoveStrFromSlice(s, x) returns s unchanged when x does not occur
\* in s; otherwise it returns s without the element at the first index k
\* holding x, every other element keeping its order; removing the only
\* element gives the empty slice.
C27_RemovesFirstOccurrence ==
    last.op = "RemoveStrFromSlice" =>
        LET s == slice.s
            x == slice.strMatch
            r == slice.r
        IN  /\ (\A i \in 1..Len(s) : s[i] # x) => r = s
            /\ (\E i \in 1..Len(s) : s[i] = x) =>
                  \E k \in 1..Len(s) :
                     /\ s[k] = x
                     /\ \A j \in 1..(k - 1) : s[j] # x
                     /\ Len(r) = Len(s) - 1
                     /\ \A j \in 1..Len(r) :
                           r[j] = IF j < k THEN s[j] ELSE s[j + 1]
            /\ (Len(s) = 1 /\ s[1] = x) => r = <<>>

\* A slice holding x twice, not in first place, from which the call removed
\* one x.
C27_Witness ==
    /\ last.op = "RemoveStrFromSlice"
    /\ Count(slice.s, slice.strMatch) = 2
    /\ slice.s[1] # slice.strMatch
    /\ Count(slice.r, slice.strMatch) = 1
    /\ Len(slice.s) = MaxSliceLen

====
